---- MODULE Spec2Model ----
(***************************************************************************)
(* Model of main.py: the HTTP entry point http_entrypoint and the pipeline *)
(* process_document_from_gcs, with the process-wide dedup cache            *)
(* processed_events, the blob store (source and output buckets) and the    *)
(* wall clock.  Several requests may be served concurrently by one         *)
(* process; every blocking call (exists, download, process_document,       *)
(* upload, delete), every access to the shared cache and every read of the *)
(* clock is one step.                                                       *)
(*                                                                         *)
(* Strings the code computes with (bucket names, object names, event ids,  *)
(* cache keys) are sequences of one-character strings, so that endswith,   *)
(* the substring test, os.path.splitext and the f-string concatenation are *)
(* computed as Python computes them.  An optional value is <<>> (None or   *)
(* absent) or <<v>>.  A local variable is cleared at the last line that    *)
(* reads it.                                                               *)
(***************************************************************************)
EXTENDS Integers, Sequences, FiniteSets, TLC

VARIABLES
    workers,           \* the worker threads the process was started with
    environ,           \* os.environ of the process
    processed_events,  \* the global cache: cache key -> timestamp
    dk_entries,        \* the entry table of that dict: keys in insertion order
    dk_size,           \* the number of slots of that dict's hash table
    blobs,             \* the blob store: <<bucket, name>> -> content
    now,               \* the wall clock, in seconds
    pc,                \* per request: position in the code
    event,             \* per request: the JSON payload
    event_id,          \* per request: the delivery id (optional)
    current_time,      \* per request: time.time() sampled at line 95
    iter_size,         \* per request: size of the cache when the sweep began
    di_pos,            \* per request: entries the iterator of line 107 has passed
    di_len,            \* per request: entries that iterator still expects
    to_remove,         \* per request: list of the keys collected by the sweep
    document,          \* per request: the extraction result (optional)
    extracted_data,    \* per request: the output record (optional)
    decision,          \* per request: verdict of the gates
    error,             \* per request: the failure that ended it, if any
    calls,             \* per request: log of calls to the external clients
    status             \* per request: HTTP status sent (0: none yet)

vars == <<workers, environ, processed_events, dk_entries, dk_size, blobs, now, pc,
          event, event_id, current_time, iter_size, di_pos, di_len, to_remove,
          document, extracted_data, decision, error, calls, status>>

---------------------------------------------------------------------------
(* Bounds of the model *)

\* the worker threads of a process; each serves one request at a time
Inv == {"A", "B"}

\* the clock stops at MaxTime
MaxTime == 900

\* the clock advances by one of these amounts
Deltas == {300, 600}

---------------------------------------------------------------------------
(* Strings *)

None == <<>>
Some(v) == <<v>>

s_in == <<"i", "n">>
s_out == <<"o", "u", "t">>
s_txt == <<".", "t", "x", "t">>
s_json == <<".", "j", "s", "o", "n">>
s_verarbeitet == <<"_", "v", "e", "r", "a", "r", "b", "e", "i", "t", "e", "t">>
s_us == <<"_">>

n_a_pdf == <<"a", ".", "p", "d", "f">>
n_a_txt == <<"a", ".", "t", "x", "t">>
n_a_json == <<"a", ".", "j", "s", "o", "n">>
n_a_verarbeitet_pdf == <<"a">> \o s_verarbeitet \o <<".", "p", "d", "f">>

n_invoice123_pdf ==
    <<"i", "n", "v", "o", "i", "c", "e", "1", "2", "3", ".", "p", "d", "f">>
n_invoice123_json ==
    <<"i", "n", "v", "o", "i", "c", "e", "1", "2", "3", ".", "j", "s", "o", "n">>
n_in_a_pdf == <<"i", "n", "_", "a", ".", "p", "d", "f">>

id_1 == <<"1">>
id_2 == <<"2">>
id_1_in == <<"1", "_", "i", "n">>

\* str.endswith
endswith(s, suffix) ==
    /\ Len(s) >= Len(suffix)
    /\ SubSeq(s, Len(s) - Len(suffix) + 1, Len(s)) = suffix

\* the `in` operator on strings
contains(s, sub) ==
    \E k \in 1..(Len(s) - Len(sub) + 1) : SubSeq(s, k, k + Len(sub) - 1) = sub

\* str.rfind of a single character, 1-based; 0 when absent
rfind(s, c) ==
    LET hits == {k \in 1..Len(s) : s[k] = c}
    IN  IF hits = {} THEN 0 ELSE CHOOSE k \in hits : \A j \in hits : j <= k

\* os.path.splitext(p)[0]: the extension starts at the last dot of the last
\* path component; leading dots of that component do not start one
splitext_root(p) ==
    LET sepIndex == rfind(p, "/")
        dotIndex == rfind(p, ".")
    IN  IF /\ dotIndex > sepIndex
           /\ \E k \in (sepIndex + 1)..(dotIndex - 1) : p[k] # "."
        THEN SubSeq(p, 1, dotIndex - 1)
        ELSE p


\* line 94: f"{event_id}_{input_bucket_name}_{file_name}"
cache_key(eid, input_bucket_name, file_name) ==
    eid \o s_us \o input_bucket_name \o s_us \o file_name

\* line 84: the object name the existence check looks for
check_output_filename(file_name) == splitext_root(file_name) \o s_txt

\* line 219: the object name the result is uploaded to
output_filename(file_name) == splitext_root(file_name) \o s_json

\* line 93: `if event_id:` (None and the empty string are both false)
Truthy(eid) == eid # None /\ eid[1] # <<>>

---------------------------------------------------------------------------
(* Inputs *)

\* line 99 and line 107: the cache window, 10 minutes
TTL == 600

ConfigKeys == {"GCP_PROJECT", "PROCESSOR_LOCATION", "PROCESSOR_ID", "OUTPUT_BUCKET"}

full_environ ==
    [GCP_PROJECT |-> "proj", PROCESSOR_LOCATION |-> "eu",
     PROCESSOR_ID |-> "proc", OUTPUT_BUCKET |-> s_out]

\* the process is started with the full configuration or without OUTPUT_BUCKET
Environs ==
    {full_environ,
     [GCP_PROJECT |-> "proj", PROCESSOR_LOCATION |-> "eu", PROCESSOR_ID |-> "proc"]}

Buckets == {s_in, s_out}
Names == {n_a_pdf, n_a_txt, n_a_json, n_a_verarbeitet_pdf}
ContentTypes == {None, Some("application/pdf"), Some("text/plain")}
\* the JSON payloads POSTed to the service (fields bucket, name, contentType)
Events == [bucket : Buckets, name : Names, contentType : ContentTypes]

\* a process with one worker receives every payload, with no delivery id or
\* with id 1; with two workers the payloads are those about a.pdf that pass
\* the gates of lines 47-77 (the others end before they touch anything the
\* workers share): worker A is sent deliveries 1 and 2, worker B delivery 2
Notifications(w) ==
    IF Cardinality(w) = 1 THEN Events
    ELSE {[bucket |-> s_in, name |-> n_a_pdf,
           contentType |-> Some("application/pdf")]}

DeliveryIds(w, i) ==
    IF Cardinality(w) = 1 THEN {None, Some(id_1)}
    ELSE IF i = "A" THEN {Some(id_1), Some(id_2)} ELSE {Some(id_2)}

NoEvent == [bucket |-> <<>>, name |-> <<>>, contentType |-> None]

\* results the extraction service returns (confidence in hundredths)
ent_total ==
    [type_ |-> "total_amount", mention_text |-> "42.00", confidence |-> 91,
     normalized_value |-> None]
ent_date ==
    [type_ |-> "date", mention_text |-> "1.2.2024", confidence |-> 80,
     normalized_value |-> Some([text |-> "2024-02-01"])]
ent_total2 ==
    [type_ |-> "total_amount", mention_text |-> "7.00", confidence |-> 55,
     normalized_value |-> None]

doc_invoice ==
    [text |-> "Total: 42.00", pages |-> <<>>, entities |-> <<ent_total>>]
doc_pages ==
    [text |-> "Total: 42.00 1.2.2024 7.00",
     pages |-> <<[dimension |-> [width |-> 595, height |-> 842, unit |-> "pt"]]>>,
     entities |-> <<ent_total, ent_date, ent_total2>>]

\* the service answers with doc_invoice
Documents == {doc_invoice}

\* content of an uploaded PDF, and of a text object left by the text variant
pdf_bytes == [bytes |-> "%PDF"]
txt_bytes == [bytes |-> "text"]

---------------------------------------------------------------------------
(* Pure parts of process_document_from_gcs *)

\* line 60: event.get("contentType", "")
content_type(ev) == IF ev.contentType = None THEN "" ELSE ev.contentType[1]

\* the gates with the content type tested before the name
local_gates_type_first(env, ev) ==
    IF ~(ConfigKeys \subseteq DOMAIN env) THEN "SkipConfigError"
    ELSE IF ev.bucket = env.OUTPUT_BUCKET THEN "SkipSelfLoop"
    ELSE IF content_type(ev) # "application/pdf" THEN "SkipWrongType"
    ELSE IF endswith(ev.name, s_txt) \/ contains(ev.name, s_verarbeitet)
         THEN "SkipAlreadyProcessedName"
    ELSE "Pending"

\* the gates without the test of the content type
local_gates_any_type(env, ev) ==
    IF ~(ConfigKeys \subseteq DOMAIN env) THEN "SkipConfigError"
    ELSE IF ev.bucket = env.OUTPUT_BUCKET THEN "SkipSelfLoop"
    ELSE IF endswith(ev.name, s_txt) \/ contains(ev.name, s_verarbeitet)
         THEN "SkipAlreadyProcessedName"
    ELSE "Pending"

\* the gates without the test of the source bucket
local_gates_any_bucket(env, ev) ==
    IF ~(ConfigKeys \subseteq DOMAIN env) THEN "SkipConfigError"
    ELSE IF endswith(ev.name, s_txt) \/ contains(ev.name, s_verarbeitet)
         THEN "SkipAlreadyProcessedName"
    ELSE IF content_type(ev) # "application/pdf" THEN "SkipWrongType"
    ELSE "Pending"

\* lines 47-77: the gates that need no network call, in the code's order
local_gates(env, ev) ==
    IF ~(ConfigKeys \subseteq DOMAIN env) THEN "SkipConfigError"
    ELSE IF ev.bucket = env.OUTPUT_BUCKET THEN "SkipSelfLoop"
    ELSE IF endswith(ev.name, s_txt) \/ contains(ev.name, s_verarbeitet)
         THEN "SkipAlreadyProcessedName"
    ELSE IF content_type(ev) # "application/pdf" THEN "SkipWrongType"
    ELSE "Pending"

\* an entry whose normalized value falls back to the mention text
entity_item_fallback(e) ==
    [value |-> e.mention_text, confidence |-> e.confidence,
     normalized_value |->
        IF e.normalized_value # None THEN Some(e.normalized_value[1].text)
        ELSE Some(e.mention_text)]

\* lines 202-206: one entry of an entity list
entity_item(e) ==
    [value |-> e.mention_text, confidence |-> e.confidence,
     normalized_value |->
        IF e.normalized_value # None THEN Some(e.normalized_value[1].text)
        ELSE None]

\* lines 189-206: entities grouped by type, types in first-seen order (a
\* Python dict keeps insertion order), values in append order
RECURSIVE group_entities(_, _)
group_entities(ents, acc) ==
    IF ents = <<>> THEN acc
    ELSE LET e == Head(ents)
             at == {k \in 1..Len(acc) : acc[k].type = e.type_}
         IN  IF at = {}
             THEN group_entities(Tail(ents),
                     Append(acc, [type |-> e.type_, values |-> <<entity_item(e)>>]))
             ELSE group_entities(Tail(ents),
                     [k \in 1..Len(acc) |->
                        IF k \in at
                        THEN [acc[k] EXCEPT !.values = Append(@, entity_item(e))]
                        ELSE acc[k]])

\* lines 177-216: the output record; t is the clock read at line 180
build_extracted_data(file_name, processor_id, doc, t) ==
    [document_info |->
        [filename |-> file_name, processing_time |-> t,
         processor_id |-> processor_id, total_pages |-> Len(doc.pages),
         dimensions |->
            IF doc.pages # <<>> THEN Some(doc.pages[1].dimension) ELSE None],
     entities |-> group_entities(doc.entities, <<>>),
     raw_text |-> doc.text]

---------------------------------------------------------------------------
(* State machine *)

\* processed_events[key] = t (line 104)
cache_put(cache, key, t) ==
    [k \in DOMAIN cache \cup {key} |-> IF k = key THEN t ELSE cache[k]]

\* del processed_events[key] (line 109)
cache_del(cache, key) == [k \in DOMAIN cache \ {key} |-> cache[k]]

\* the sweep with a window of 900 seconds
expired_window_900(cache, t) == {k \in DOMAIN cache : t - cache[k] > 900}

\* line 14: processed_events is a dict, created empty and without a hash
\* table.  Its entry table keeps the keys in insertion order; a deleted
\* entry leaves a dummy in its place.  The first key gets a hash table of
\* dk_minsize slots; a table of size slots has room for two thirds of size
\* entries, dummies included
dk_minsize == 8
dk_dummy == <<>>

usable_fraction(size) == (2 * size) \div 3

live_entries(entries) == SelectSeq(entries, LAMBDA k : k # dk_dummy)

\* the smallest power of two, from p on, that is greater than v
RECURSIVE pow2_above(_, _)
pow2_above(v, p) == IF p > v THEN p ELSE pow2_above(v, 2 * p)

\* the slots of the table a dict with used keys is rebuilt into: the power
\* of two with as many bits as (((3 * used) | 8) - 1) | 7 has
dk_growth(used) ==
    LET m == 3 * used
        o == IF (m \div 8) % 2 = 1 THEN m ELSE m + 8
        v == (o - 1) - ((o - 1) % 8) + 7
    IN  pow2_above(v, dk_minsize)

\* processed_events[key] = ... (line 104) on the entry table: a key that is
\* in the dict keeps its place, a new key goes to the end; when the table
\* has no room left it is first rebuilt, without its dummies, in a table
\* sized for the keys in use
dict_setitem(entries, size, cache, key) ==
    IF key \in DOMAIN cache THEN [entries |-> entries, size |-> size]
    ELSE IF size = 0 THEN [entries |-> <<key>>, size |-> dk_minsize]
    ELSE IF Len(entries) >= usable_fraction(size)
    THEN [entries |-> Append(live_entries(entries), key),
          size |-> dk_growth(Cardinality(DOMAIN cache))]
    ELSE [entries |-> Append(entries, key), size |-> size]

\* del processed_events[key] (line 109) on the entry table
dict_delitem(entries, key) ==
    [n \in 1..Len(entries) |-> IF entries[n] = key THEN dk_dummy ELSE entries[n]]

\* the iterator of line 107: the place of the first entry after the first
\* pos places of the table that is not a dummy; 0 when there is none
next_entry(entries, pos) ==
    LET rest == {n \in (pos + 1)..Len(entries) : entries[n] # dk_dummy}
    IN  IF rest = {} THEN 0 ELSE CHOOSE n \in rest : \A m \in rest : n <= m

\* line 107: the keys whose entry is older than the window
expired(cache, t) == {k \in DOMAIN cache : t - cache[k] > TTL}

\* upload_from_string (line 227) and delete (line 236) on the blob store
blob_put(store, at, content) ==
    [b \in DOMAIN store \cup {at} |-> IF b = at THEN content ELSE store[b]]
blob_del(store, at) == [b \in DOMAIN store \ {at} |-> store[b]]

\* the objects the notifications are about lie in the source bucket; the
\* output bucket is empty
InitialBlobs == [b \in {<<s_in, n>> : n \in Names} |-> pdf_bytes]

Init ==
    /\ workers \in {{"A"}, Inv}
    /\ environ \in Environs
    /\ processed_events = [k \in {} |-> 0]
    /\ dk_entries = <<>>
    /\ dk_size = 0
    /\ blobs = InitialBlobs
    /\ now = 0
    /\ pc = [i \in Inv |-> "idle"]
    /\ event = [i \in Inv |-> NoEvent]
    /\ event_id = [i \in Inv |-> None]
    /\ current_time = [i \in Inv |-> 0]
    /\ iter_size = [i \in Inv |-> 0]
    /\ di_pos = [i \in Inv |-> 0]
    /\ di_len = [i \in Inv |-> 0]
    /\ to_remove = [i \in Inv |-> <<>>]
    /\ document = [i \in Inv |-> None]
    /\ extracted_data = [i \in Inv |-> None]
    /\ decision = [i \in Inv |-> "Pending"]
    /\ error = [i \in Inv |-> "none"]
    /\ calls = [i \in Inv |-> <<>>]
    /\ status = [i \in Inv |-> 0]

\* the function returns (or raises) and http_entrypoint answers: 204 at line
\* 31, 500 when an exception left process_document_from_gcs
returns(i, verdict, err, code) ==
    /\ pc' = [pc EXCEPT ![i] = "done"]
    /\ decision' = [decision EXCEPT ![i] = verdict]
    /\ error' = [error EXCEPT ![i] = err]
    /\ status' = [status EXCEPT ![i] = code]

goto(i, label) ==
    /\ pc' = [pc EXCEPT ![i] = label]
    /\ UNCHANGED <<decision, error, status>>

called(i, op, ok) == calls' = [calls EXCEPT ![i] = Append(@, <<op, ok>>)]

\* lines 17-30 and 47-77: a POST arrives with one of the given payloads; the
\* delivery id is the ce-eventid header, else the eventId field; the gates
\* without network call are passed or the request ends with 204
receive(i, notifications, headers, bodies) ==
    /\ i \in workers
    /\ pc[i] = "idle"
    /\ \E ev \in notifications, header \in headers, body \in bodies :
         LET eid == IF header # None THEN header ELSE body
             verdict == local_gates(environ, ev)
         IN  /\ event' = [event EXCEPT ![i] = ev]
             /\ event_id' = [event_id EXCEPT ![i] = eid]
             /\ IF verdict = "Pending"
                THEN goto(i, "exists")
                ELSE returns(i, verdict, "none", 204)
    /\ UNCHANGED <<workers, environ, processed_events, dk_entries, dk_size, blobs, now,
                   current_time, iter_size, di_pos, di_len, to_remove, document,
                   extracted_data, calls>>

\* the POSTs a process with these workers is sent
http_entrypoint(i) ==
    receive(i, Notifications(workers), DeliveryIds(workers, i),
            DeliveryIds(workers, i))

\* lines 84-90: the durable existence check; an exception of exists() is not
\* caught anywhere
exists_check(i) ==
    /\ pc[i] = "exists"
    /\ \/ /\ called(i, "exists", FALSE)
          /\ returns(i, decision[i], "StorageError", 500)
       \/ /\ called(i, "exists", TRUE)
          /\ IF <<environ.OUTPUT_BUCKET, check_output_filename(event[i].name)>>
                  \in DOMAIN blobs
             THEN returns(i, "SkipAlreadyOutput", "none", 204)
             ELSE goto(i, "dedup")
    /\ UNCHANGED <<workers, environ, processed_events, dk_entries, dk_size, blobs, now,
                   event, event_id, current_time, iter_size, di_pos, di_len, to_remove,
                   document, extracted_data>>

\* lines 93-95: without a delivery id the gate is passed (the tests of lines
\* 113-126 repeat those of lines 64-77 on the same values and never match);
\* with one, the cache key is built and the time is sampled
dedup_sample(i) ==
    /\ pc[i] = "dedup"
    /\ IF ~Truthy(event_id[i])
       THEN /\ pc' = [pc EXCEPT ![i] = "download"]
            /\ decision' = [decision EXCEPT ![i] = "Proceed"]
            /\ UNCHANGED <<error, status, current_time>>
       ELSE /\ current_time' = [current_time EXCEPT ![i] = now]
            /\ goto(i, "lookup")
    /\ UNCHANGED <<workers, environ, processed_events, dk_entries, dk_size, blobs, now,
                   event, event_id, iter_size, di_pos, di_len, to_remove, document,
                   extracted_data, calls>>

\* line 98: the key is looked up in the cache; a key that is not there
\* passes the gate
dedup_lookup(i) ==
    /\ pc[i] = "lookup"
    /\ IF cache_key(event_id[i][1], event[i].bucket, event[i].name)
            \in DOMAIN processed_events
       THEN goto(i, "compare")
       ELSE /\ pc' = [pc EXCEPT ![i] = "store"]
            /\ decision' = [decision EXCEPT ![i] = "Proceed"]
            /\ UNCHANGED <<error, status>>
    /\ UNCHANGED <<workers, environ, processed_events, dk_entries, dk_size, blobs, now,
                   event, event_id, current_time, iter_size, di_pos, di_len, to_remove,
                   document, extracted_data, calls>>

\* the comparison with a window of one minute
dedup_compare_window_60(i) ==
    /\ pc[i] = "compare"
    /\ LET key == cache_key(event_id[i][1], event[i].bucket, event[i].name)
       IN  IF key \notin DOMAIN processed_events
           THEN /\ returns(i, decision[i], "KeyError", 500)
                /\ current_time' = [current_time EXCEPT ![i] = 0]
                /\ UNCHANGED <<processed_events, dk_entries, dk_size>>
           ELSE IF current_time[i] - processed_events[key] < 60
               THEN /\ returns(i, "SkipDuplicateDelivery", "none", 204)
                    /\ current_time' = [current_time EXCEPT ![i] = 0]
                    /\ UNCHANGED <<processed_events, dk_entries, dk_size>>
               ELSE /\ pc' = [pc EXCEPT ![i] = "store"]
                    /\ decision' = [decision EXCEPT ![i] = "Proceed"]
                    /\ UNCHANGED <<error, status, current_time, processed_events,
                                   dk_entries, dk_size>>
    /\ UNCHANGED <<workers, environ, blobs, now, event, event_id, iter_size, di_pos,
                   di_len, to_remove, document, extracted_data, calls>>

\* the comparison with an entry of age TTL still counted as seen
dedup_compare_inclusive(i) ==
    /\ pc[i] = "compare"
    /\ LET key == cache_key(event_id[i][1], event[i].bucket, event[i].name)
       IN  IF key \notin DOMAIN processed_events
           THEN /\ returns(i, decision[i], "KeyError", 500)
                /\ current_time' = [current_time EXCEPT ![i] = 0]
                /\ UNCHANGED <<processed_events, dk_entries, dk_size>>
           ELSE IF current_time[i] - processed_events[key] <= TTL
               THEN /\ returns(i, "SkipDuplicateDelivery", "none", 204)
                    /\ current_time' = [current_time EXCEPT ![i] = 0]
                    /\ UNCHANGED <<processed_events, dk_entries, dk_size>>
               ELSE /\ pc' = [pc EXCEPT ![i] = "store"]
                    /\ decision' = [decision EXCEPT ![i] = "Proceed"]
                    /\ UNCHANGED <<error, status, current_time, processed_events,
                                   dk_entries, dk_size>>
    /\ UNCHANGED <<workers, environ, blobs, now, event, event_id, iter_size, di_pos,
                   di_len, to_remove, document, extracted_data, calls>>

\* the comparison with the entry refreshed when the delivery is skipped
dedup_compare_refresh(i) ==
    /\ pc[i] = "compare"
    /\ LET key == cache_key(event_id[i][1], event[i].bucket, event[i].name)
       IN  IF key \notin DOMAIN processed_events
           THEN /\ returns(i, decision[i], "KeyError", 500)
                /\ current_time' = [current_time EXCEPT ![i] = 0]
                /\ UNCHANGED <<processed_events, dk_entries, dk_size>>
           ELSE IF current_time[i] - processed_events[key] < TTL
               THEN /\ returns(i, "SkipDuplicateDelivery", "none", 204)
                    /\ current_time' = [current_time EXCEPT ![i] = 0]
                    /\ processed_events' = cache_put(processed_events, key, current_time[i])
                    /\ UNCHANGED <<dk_entries, dk_size>>
               ELSE /\ pc' = [pc EXCEPT ![i] = "store"]
                    /\ decision' = [decision EXCEPT ![i] = "Proceed"]
                    /\ UNCHANGED <<error, status, current_time, processed_events,
                                   dk_entries, dk_size>>
    /\ UNCHANGED <<workers, environ, blobs, now, event, event_id, iter_size, di_pos,
                   di_len, to_remove, document, extracted_data, calls>>

\* lines 99-101: the entry found at line 98 is read (it raises KeyError when
\* it is gone meanwhile) and compared with the sampled time
dedup_compare(i) ==
    /\ pc[i] = "compare"
    /\ LET key == cache_key(event_id[i][1], event[i].bucket, event[i].name)
       IN  IF key \notin DOMAIN processed_events
           THEN /\ returns(i, decision[i], "KeyError", 500)
                /\ current_time' = [current_time EXCEPT ![i] = 0]
                /\ UNCHANGED <<processed_events, dk_entries, dk_size>>
           ELSE IF current_time[i] - processed_events[key] < TTL
               THEN /\ returns(i, "SkipDuplicateDelivery", "none", 204)
                    /\ current_time' = [current_time EXCEPT ![i] = 0]
                    /\ UNCHANGED <<processed_events, dk_entries, dk_size>>
               ELSE /\ pc' = [pc EXCEPT ![i] = "store"]
                    /\ decision' = [decision EXCEPT ![i] = "Proceed"]
                    /\ UNCHANGED <<error, status, current_time, processed_events,
                                   dk_entries, dk_size>>
    /\ UNCHANGED <<workers, environ, blobs, now, event, event_id, iter_size, di_pos,
                   di_len, to_remove, document, extracted_data, calls>>

\* line 104: the delivery is recorded
dedup_store(i) ==
    /\ pc[i] = "store"
    /\ LET key == cache_key(event_id[i][1], event[i].bucket, event[i].name)
           table == dict_setitem(dk_entries, dk_size, processed_events, key)
       IN  /\ dk_entries' = table.entries
           /\ dk_size' = table.size
           /\ processed_events' = cache_put(processed_events, key, current_time[i])
    /\ goto(i, "sweep")
    /\ UNCHANGED <<workers, environ, blobs, now, event, event_id, current_time,
                   iter_size, di_pos, di_len, to_remove, document, extracted_data, calls>>

\* line 107: the iterator over processed_events.items() is created
sweep_begin(i) ==
    /\ pc[i] = "sweep"
    /\ iter_size' = [iter_size EXCEPT ![i] = Cardinality(DOMAIN processed_events)]
    /\ di_len' = [di_len EXCEPT ![i] = Cardinality(DOMAIN processed_events)]
    /\ di_pos' = [di_pos EXCEPT ![i] = 0]
    /\ goto(i, "collect")
    /\ UNCHANGED <<workers, environ, processed_events, dk_entries, dk_size, blobs, now,
                   event, event_id, current_time, to_remove, document, extracted_data,
                   calls>>

\* line 107: the iterator is asked for its next entry.  A dict whose size
\* differs from the size at its creation raises RuntimeError, and so does an
\* entry found when none is expected any more; nothing catches it.  An entry
\* older than the window is appended to the list; when no entry is left the
\* comprehension ends.
sweep_collect(i) ==
    /\ pc[i] = "collect"
    /\ LET at == next_entry(dk_entries, di_pos[i])
           leave(list) ==
              /\ iter_size' = [iter_size EXCEPT ![i] = 0]
              /\ di_pos' = [di_pos EXCEPT ![i] = 0]
              /\ di_len' = [di_len EXCEPT ![i] = 0]
              /\ current_time' =
                    [current_time EXCEPT ![i] = IF list = <<>> THEN 0 ELSE @]
       IN  IF \/ Cardinality(DOMAIN processed_events) # iter_size[i]
              \/ at # 0 /\ di_len[i] = 0
           THEN /\ returns(i, decision[i], "RuntimeError", 500)
                /\ to_remove' = [to_remove EXCEPT ![i] = <<>>]
                /\ leave(<<>>)
           ELSE IF at = 0
           THEN /\ goto(i, IF to_remove[i] = <<>> THEN "download" ELSE "evict")
                /\ leave(to_remove[i])
                /\ UNCHANGED to_remove
           ELSE /\ di_pos' = [di_pos EXCEPT ![i] = at]
                /\ di_len' = [di_len EXCEPT ![i] = @ - 1]
                /\ to_remove' =
                      [to_remove EXCEPT ![i] =
                          IF dk_entries[at] \in expired(processed_events, current_time[i])
                          THEN Append(@, dk_entries[at]) ELSE @]
                /\ goto(i, "collect")
                /\ UNCHANGED <<iter_size, current_time>>
    /\ UNCHANGED <<workers, environ, processed_events, dk_entries, dk_size, blobs, now,
                   event, event_id, document, extracted_data, calls>>

\* lines 108-109: the next key of the list is deleted; a key that is gone
\* raises KeyError, which nothing catches
sweep_delete(i) ==
    /\ pc[i] = "evict"
    /\ LET k == Head(to_remove[i])
           last == Len(to_remove[i]) = 1
       IN  IF k \in DOMAIN processed_events
           THEN /\ processed_events' = cache_del(processed_events, k)
                /\ dk_entries' = dict_delitem(dk_entries, k)
                /\ UNCHANGED dk_size
                /\ to_remove' = [to_remove EXCEPT ![i] = Tail(@)]
                /\ current_time' = [current_time EXCEPT ![i] = IF last THEN 0 ELSE @]
                /\ goto(i, IF last THEN "download" ELSE "evict")
           ELSE /\ returns(i, decision[i], "KeyError", 500)
                /\ to_remove' = [to_remove EXCEPT ![i] = <<>>]
                /\ current_time' = [current_time EXCEPT ![i] = 0]
                /\ UNCHANGED <<processed_events, dk_entries, dk_size>>
    /\ UNCHANGED <<workers, environ, blobs, now, event, event_id, iter_size, di_pos,
                   di_len, document, extracted_data, calls>>

\* lines 150-154 and 171-173: the source object is downloaded; any exception
\* (the object may be gone) ends the request
download(i) ==
    /\ pc[i] = "download"
    /\ \/ /\ called(i, "download", FALSE)
          /\ returns(i, decision[i], "ExtractionError", 204)
       \/ /\ <<event[i].bucket, event[i].name>> \in DOMAIN blobs
          /\ called(i, "download", TRUE)
          /\ goto(i, "extract")
    /\ UNCHANGED <<workers, environ, processed_events, dk_entries, dk_size, blobs, now,
                   event, event_id, current_time, iter_size, di_pos, di_len, to_remove,
                   document, extracted_data>>

\* process_document with the cleanup reached after a failed extraction
process_document_cleanup(i) ==
    /\ pc[i] = "extract"
    /\ \/ /\ called(i, "process_document", FALSE)
          /\ pc' = [pc EXCEPT ![i] = "delete"]
          /\ error' = [error EXCEPT ![i] = "ExtractionError"]
          /\ UNCHANGED <<decision, status, document, extracted_data>>
       \/ /\ called(i, "process_document", TRUE)
          /\ \E doc \in Documents : document' = [document EXCEPT ![i] = Some(doc)]
          /\ goto(i, "record")
          /\ UNCHANGED extracted_data
    /\ UNCHANGED <<workers, environ, processed_events, dk_entries, dk_size, blobs, now,
                   event, event_id, current_time, iter_size, di_pos, di_len, to_remove>>

\* lines 157-173: the extraction call, answered with one of the given
\* documents; any exception ends the request
extraction(i, documents) ==
    /\ pc[i] = "extract"
    /\ \/ /\ called(i, "process_document", FALSE)
          /\ returns(i, decision[i], "ExtractionError", 204)
          /\ UNCHANGED <<document, extracted_data>>
       \/ /\ called(i, "process_document", TRUE)
          /\ \E doc \in documents : document' = [document EXCEPT ![i] = Some(doc)]
          /\ goto(i, "record")
          /\ UNCHANGED extracted_data
    /\ UNCHANGED <<workers, environ, processed_events, dk_entries, dk_size, blobs, now,
                   event, event_id, current_time, iter_size, di_pos, di_len, to_remove>>

process_document(i) == extraction(i, Documents)

\* lines 177-216: the output record is built from the extraction result;
\* line 180 reads the clock
build_record(i) ==
    /\ pc[i] = "record"
    /\ extracted_data' =
          [extracted_data EXCEPT ![i] =
              Some(build_extracted_data(event[i].name, environ.PROCESSOR_ID,
                                        document[i][1], now))]
    /\ document' = [document EXCEPT ![i] = None]
    /\ goto(i, "upload")
    /\ UNCHANGED <<workers, environ, processed_events, dk_entries, dk_size, blobs, now,
                   event, event_id, current_time, iter_size, di_pos, di_len, to_remove,
                   calls>>

\* upload to an object named after the delivery id as well
upload_per_delivery(i) ==
    /\ pc[i] = "upload"
    /\ \/ /\ called(i, "upload", FALSE)
          /\ returns(i, decision[i], "PersistenceError", 204)
          /\ UNCHANGED blobs
       \/ /\ called(i, "upload", TRUE)
          /\ blobs' = blob_put(blobs,
                        <<environ.OUTPUT_BUCKET,
                          splitext_root(event[i].name)
                             \o (IF Truthy(event_id[i])
                                 THEN s_us \o event_id[i][1] ELSE <<>>)
                             \o s_json>>,
                        extracted_data[i][1])
          /\ goto(i, "delete")
    /\ extracted_data' = [extracted_data EXCEPT ![i] = None]
    /\ UNCHANGED document
    /\ UNCHANGED <<workers, environ, processed_events, dk_entries, dk_size, now, event,
                   event_id, current_time, iter_size, di_pos, di_len, to_remove>>

\* upload with the delete placed after the try block
upload_then_delete(i) ==
    /\ pc[i] = "upload"
    /\ \/ /\ called(i, "upload", FALSE)
          /\ pc' = [pc EXCEPT ![i] = "delete"]
          /\ error' = [error EXCEPT ![i] = "PersistenceError"]
          /\ UNCHANGED <<decision, status, blobs>>
       \/ /\ called(i, "upload", TRUE)
          /\ blobs' = blob_put(blobs,
                        <<environ.OUTPUT_BUCKET, output_filename(event[i].name)>>,
                        extracted_data[i][1])
          /\ goto(i, "delete")
    /\ extracted_data' = [extracted_data EXCEPT ![i] = None]
    /\ UNCHANGED document
    /\ UNCHANGED <<workers, environ, processed_events, dk_entries, dk_size, now, event,
                   event_id, current_time, iter_size, di_pos, di_len, to_remove>>

\* lines 219-229 and 242-244: the record is uploaded under the output name
upload(i) ==
    /\ pc[i] = "upload"
    /\ \/ /\ called(i, "upload", FALSE)
          /\ returns(i, decision[i], "PersistenceError", 204)
          /\ UNCHANGED blobs
       \/ /\ called(i, "upload", TRUE)
          /\ blobs' = blob_put(blobs,
                        <<environ.OUTPUT_BUCKET, output_filename(event[i].name)>>,
                        extracted_data[i][1])
          /\ goto(i, "delete")
    /\ extracted_data' = [extracted_data EXCEPT ![i] = None]
    /\ UNCHANGED document
    /\ UNCHANGED <<workers, environ, processed_events, dk_entries, dk_size, now, event,
                   event_id, current_time, iter_size, di_pos, di_len, to_remove>>

\* the delete with its failure raised out of the function
delete_fatal(i) ==
    /\ pc[i] = "delete"
    /\ \/ /\ called(i, "delete", FALSE)
          /\ returns(i, decision[i], "CleanupError", 500)
          /\ UNCHANGED blobs
       \/ /\ <<event[i].bucket, event[i].name>> \in DOMAIN blobs
          /\ called(i, "delete", TRUE)
          /\ blobs' = blob_del(blobs, <<event[i].bucket, event[i].name>>)
          /\ returns(i, decision[i], "none", 204)
    /\ UNCHANGED <<workers, environ, processed_events, dk_entries, dk_size, now, event,
                   event_id, current_time, iter_size, di_pos, di_len, to_remove,
                   document, extracted_data>>

\* lines 233-240: the source object is deleted; a failure is only logged
delete(i) ==
    /\ pc[i] = "delete"
    /\ \/ /\ called(i, "delete", FALSE)
          /\ returns(i, decision[i], "CleanupWarning", 204)
          /\ UNCHANGED blobs
       \/ /\ <<event[i].bucket, event[i].name>> \in DOMAIN blobs
          /\ called(i, "delete", TRUE)
          /\ blobs' = blob_del(blobs, <<event[i].bucket, event[i].name>>)
          /\ returns(i, decision[i], "none", 204)
    /\ UNCHANGED <<workers, environ, processed_events, dk_entries, dk_size, now, event,
                   event_id, current_time, iter_size, di_pos, di_len, to_remove,
                   document, extracted_data>>

\* the response is sent and the worker takes the next request
next_request(i) ==
    /\ pc[i] = "done"
    /\ pc' = [pc EXCEPT ![i] = "idle"]
    /\ event' = [event EXCEPT ![i] = NoEvent]
    /\ event_id' = [event_id EXCEPT ![i] = None]
    /\ decision' = [decision EXCEPT ![i] = "Pending"]
    /\ error' = [error EXCEPT ![i] = "none"]
    /\ calls' = [calls EXCEPT ![i] = <<>>]
    /\ status' = [status EXCEPT ![i] = 0]
    /\ UNCHANGED <<workers, environ, processed_events, dk_entries, dk_size, blobs, now,
                   current_time, iter_size, di_pos, di_len, to_remove, document,
                   extracted_data>>

\* another writer (the text variant of the pipeline) puts a.txt into the
\* output bucket of a process with one worker
external_upload ==
    /\ Cardinality(workers) = 1
    /\ <<s_out, n_a_txt>> \notin DOMAIN blobs
    /\ blobs' = blob_put(blobs, <<s_out, n_a_txt>>, txt_bytes)
    /\ UNCHANGED <<workers, environ, processed_events, dk_entries, dk_size, now, pc,
                   event, event_id, current_time, iter_size, di_pos, di_len, to_remove,
                   document, extracted_data, decision, error, calls, status>>

\* time passes
Tick(d) ==
    /\ now + d <= MaxTime
    /\ now' = now + d
    /\ UNCHANGED <<workers, environ, processed_events, dk_entries, dk_size, blobs, pc,
                   event, event_id, current_time, iter_size, di_pos, di_len, to_remove,
                   document, extracted_data, decision, error, calls, status>>

Next ==
    \/ \E i \in Inv : http_entrypoint(i)
    \/ \E i \in Inv : exists_check(i)
    \/ \E i \in Inv : dedup_sample(i)
    \/ \E i \in Inv : dedup_lookup(i)
    \/ \E i \in Inv : dedup_compare(i)
    \/ \E i \in Inv : dedup_store(i)
    \/ \E i \in Inv : sweep_begin(i)
    \/ \E i \in Inv : sweep_collect(i)
    \/ \E i \in Inv : sweep_delete(i)
    \/ \E i \in Inv : download(i)
    \/ \E i \in Inv : process_document(i)
    \/ \E i \in Inv : build_record(i)
    \/ \E i \in Inv : upload(i)
    \/ \E i \in Inv : delete(i)
    \/ \E i \in Inv : next_request(i)
    \/ external_upload
    \/ \E d \in Deltas : Tick(d)

Spec == Init /\ [][Next]_vars

---------------------------------------------------------------------------
(* The invoice scenario: one worker, fully configured, is sent notifications *)
(* about invoice123.pdf, without delivery id or with id 1 or 2 in the        *)
(* header; the extraction answers with one of two documents.                 *)

InvoiceNotifications ==
    {[bucket |-> s_in, name |-> n_invoice123_pdf,
      contentType |-> Some("application/pdf")]}

InvoiceDocuments == {doc_invoice, doc_pages}

InitInvoice ==
    /\ workers = {"A"}
    /\ environ = full_environ
    /\ processed_events = [k \in {} |-> 0]
    /\ dk_entries = <<>>
    /\ dk_size = 0
    /\ blobs = [b \in {<<s_in, n_invoice123_pdf>>} |-> pdf_bytes]
    /\ now = 0
    /\ pc = [i \in Inv |-> "idle"]
    /\ event = [i \in Inv |-> NoEvent]
    /\ event_id = [i \in Inv |-> None]
    /\ current_time = [i \in Inv |-> 0]
    /\ iter_size = [i \in Inv |-> 0]
    /\ di_pos = [i \in Inv |-> 0]
    /\ di_len = [i \in Inv |-> 0]
    /\ to_remove = [i \in Inv |-> <<>>]
    /\ document = [i \in Inv |-> None]
    /\ extracted_data = [i \in Inv |-> None]
    /\ decision = [i \in Inv |-> "Pending"]
    /\ error = [i \in Inv |-> "none"]
    /\ calls = [i \in Inv |-> <<>>]
    /\ status = [i \in Inv |-> 0]

NextInvoice ==
    \/ \E i \in Inv :
          receive(i, InvoiceNotifications, {None, Some(id_1), Some(id_2)}, {None})
    \/ \E i \in Inv : exists_check(i)
    \/ \E i \in Inv : dedup_sample(i)
    \/ \E i \in Inv : dedup_lookup(i)
    \/ \E i \in Inv : dedup_compare(i)
    \/ \E i \in Inv : dedup_store(i)
    \/ \E i \in Inv : sweep_begin(i)
    \/ \E i \in Inv : sweep_collect(i)
    \/ \E i \in Inv : sweep_delete(i)
    \/ \E i \in Inv : download(i)
    \/ \E i \in Inv : extraction(i, InvoiceDocuments)
    \/ \E i \in Inv : build_record(i)
    \/ \E i \in Inv : upload(i)
    \/ \E i \in Inv : delete(i)
    \/ \E i \in Inv : next_request(i)
    \/ \E d \in Deltas : Tick(d)

SpecInvoice == InitInvoice /\ [][NextInvoice]_vars

---------------------------------------------------------------------------
(* The underscore scenario: two workers, fully configured, are sent two      *)
(* notifications whose delivery id or object name contains the character     *)
(* that line 94 joins the cache key with: (1_in, in, a.pdf) and              *)
(* (1, in, in_a.pdf).                                                        *)

ev_a_pdf ==
    [bucket |-> s_in, name |-> n_a_pdf, contentType |-> Some("application/pdf")]
ev_in_a_pdf ==
    [bucket |-> s_in, name |-> n_in_a_pdf, contentType |-> Some("application/pdf")]

InitKeys ==
    /\ workers = Inv
    /\ environ = full_environ
    /\ processed_events = [k \in {} |-> 0]
    /\ dk_entries = <<>>
    /\ dk_size = 0
    /\ blobs = [b \in {<<s_in, n_a_pdf>>, <<s_in, n_in_a_pdf>>} |-> pdf_bytes]
    /\ now = 0
    /\ pc = [i \in Inv |-> "idle"]
    /\ event = [i \in Inv |-> NoEvent]
    /\ event_id = [i \in Inv |-> None]
    /\ current_time = [i \in Inv |-> 0]
    /\ iter_size = [i \in Inv |-> 0]
    /\ di_pos = [i \in Inv |-> 0]
    /\ di_len = [i \in Inv |-> 0]
    /\ to_remove = [i \in Inv |-> <<>>]
    /\ document = [i \in Inv |-> None]
    /\ extracted_data = [i \in Inv |-> None]
    /\ decision = [i \in Inv |-> "Pending"]
    /\ error = [i \in Inv |-> "none"]
    /\ calls = [i \in Inv |-> <<>>]
    /\ status = [i \in Inv |-> 0]

NextKeys ==
    \/ \E i \in Inv : receive(i, {ev_a_pdf}, {Some(id_1_in)}, {None})
    \/ \E i \in Inv : receive(i, {ev_in_a_pdf}, {Some(id_1)}, {None})
    \/ \E i \in Inv : exists_check(i)
    \/ \E i \in Inv : dedup_sample(i)
    \/ \E i \in Inv : dedup_lookup(i)
    \/ \E i \in Inv : dedup_compare(i)
    \/ \E i \in Inv : dedup_store(i)
    \/ \E i \in Inv : sweep_begin(i)
    \/ \E i \in Inv : sweep_collect(i)
    \/ \E i \in Inv : sweep_delete(i)
    \/ \E i \in Inv : download(i)
    \/ \E i \in Inv : process_document(i)
    \/ \E i \in Inv : build_record(i)
    \/ \E i \in Inv : upload(i)
    \/ \E i \in Inv : delete(i)
    \/ \E i \in Inv : next_request(i)
    \/ \E d \in Deltas : Tick(d)

SpecKeys == InitKeys /\ [][NextKeys]_vars

---------------------------------------------------------------------------
(* Properties *)

\* the request of worker i has made the call op / the call op has succeeded
HasCall(c, op) == \E k \in 1..Len(c) : c[k][1] = op
CallOK(c, op) == \E k \in 1..Len(c) : c[k] = <<op, TRUE>>
CallFailed(c, op) == \E k \in 1..Len(c) : c[k] = <<op, FALSE>>

\* the source object of a request, and the object its result is uploaded to
SourceOf(i) == <<event[i].bucket, event[i].name>>
OutputOf(i) == <<s_out, output_filename(event[i].name)>>

\* the output bucket holds the result of an earlier run on the same source
HasOutput(i) ==
    /\ OutputOf(i) \in DOMAIN blobs
    /\ blobs[OutputOf(i)].document_info.filename = event[i].name

\* the cache key of a request with a delivery id
KeyOf(i) == cache_key(event_id[i][1], event[i].bucket, event[i].name)

\* C1: idempotence.  With one request at a time, a request for a source
\* whose output object already lies in the destination bucket ends at the
\* existence gate: it never gets as far as the extraction call.
C1_Idempotence ==
    \A i \in Inv :
        (workers = {i} /\ pc[i] = "extract") => ~HasOutput(i)

\* C2: a failed extraction is retryable by redelivery.  When a request has
\* ended with a failed download or extraction, a redelivery of the same
\* notification (same delivery id, bucket and name; source present, output
\* absent) is not skipped at the delivery-identity gate.
C2_RetryByRedelivery ==
    [][\A j \in Inv :
          (pc[j] = "compare" /\ decision'[j] = "SkipDuplicateDelivery")
          => ~\E i \in Inv \ {j} :
                /\ pc[i] = "done"
                /\ error[i] = "ExtractionError"
                /\ event[i] = event[j]
                /\ event_id[i] = event_id[j]
                /\ SourceOf(j) \in DOMAIN blobs
                /\ DOMAIN blobs \cap {OutputOf(j), <<s_out, n_a_txt>>} = {}]_vars

\* C3: a failed download or extraction ends the request (with 204): the
\* blob store is left as it was, and the request has attempted neither an
\* upload nor a delete.
C3_FailureLeavesStore ==
    [][\A i \in Inv :
          (/\ pc[i] \in {"download", "extract"}
           /\ calls'[i] # calls[i]
           /\ calls'[i][Len(calls'[i])][2] = FALSE)
          => /\ pc'[i] = "done"
             /\ error'[i] = "ExtractionError"
             /\ status'[i] = 204
             /\ blobs' = blobs
             /\ ~HasCall(calls'[i], "upload")
             /\ ~HasCall(calls'[i], "delete")]_vars

\* a request ended by a failed extraction call; its source is still there and
\* there is no output
C3_Witness ==
    \E i \in Inv :
        /\ pc[i] = "done"
        /\ error[i] = "ExtractionError"
        /\ CallFailed(calls[i], "process_document")
        /\ SourceOf(i) \in DOMAIN blobs
        /\ OutputOf(i) \notin DOMAIN blobs

\* the delete is attempted (or about to be) exactly when the upload succeeded
DeleteIffUploaded ==
    \A i \in Inv :
        /\ (HasCall(calls[i], "delete") \/ pc[i] = "delete")
              <=> CallOK(calls[i], "upload")
        /\ CallFailed(calls[i], "upload")
              => (pc[i] = "done" /\ error[i] = "PersistenceError")

\* C4: the source is deleted only after the upload succeeded: a delete is
\* attempted if and only if the upload of the same request completed without
\* error; a failed upload ends the request and leaves the blob store as it
\* was, the source included.
C4_DeleteOnlyAfterUpload ==
    [][/\ DeleteIffUploaded'
       /\ \A i \in Inv :
            (pc[i] = "upload" /\ CallFailed(calls'[i], "upload"))
            => (pc'[i] = "done" /\ blobs' = blobs)]_vars

\* a request ended by a failed upload, its source still there
C4_Witness ==
    \E i \in Inv :
        /\ pc[i] = "done"
        /\ CallFailed(calls[i], "upload")
        /\ ~HasCall(calls[i], "delete")
        /\ SourceOf(i) \in DOMAIN blobs

\* lines 98-99: the delivery recorded under key is seen within the window
Suppressed(cache, key, t) == key \in DOMAIN cache /\ t - cache[key] < TTL

\* C5: suppression within the window.  A request with a delivery id that
\* comes to the delivery-identity gate while the cache holds an entry for
\* its (id, bucket, name) has sampled the time and goes on to read the entry;
\* when the entry it reads is younger than 600 seconds at the sampled time
\* the request ends there with SkipDuplicateDelivery: it has made no call
\* but the existence check and changes neither the cache nor the blob
\* store.  With one worker the entry found is still there when it is read,
\* and an entry younger than 600 seconds is never removed nor made older.
C5_SuppressedWithinTTL ==
    [][/\ \A i \in Inv :
            (pc[i] = "dedup" /\ pc'[i] # "dedup" /\ Truthy(event_id[i]))
            => /\ pc'[i] = "lookup"
               /\ current_time'[i] = now
               /\ processed_events' = processed_events
       /\ \A i \in Inv :
            (/\ pc[i] = "lookup"
             /\ pc'[i] # "lookup"
             /\ KeyOf(i) \in DOMAIN processed_events)
            => /\ pc'[i] = "compare"
               /\ current_time'[i] = current_time[i]
               /\ processed_events' = processed_events
       /\ \A i \in Inv :
            (/\ pc[i] = "compare"
             /\ pc'[i] # "compare"
             /\ Suppressed(processed_events, KeyOf(i), current_time[i]))
            => /\ pc'[i] = "done"
               /\ decision'[i] = "SkipDuplicateDelivery"
               /\ status'[i] = 204
               /\ calls'[i] = << <<"exists", TRUE>> >>
               /\ processed_events' = processed_events
               /\ blobs' = blobs
       /\ \A i \in Inv :
            (workers = {i} /\ pc[i] = "compare")
            => KeyOf(i) \in DOMAIN processed_events
       /\ \A i \in Inv :
            (workers = {i} /\ pc[i] \in {"lookup", "compare"})
            => processed_events' = processed_events
       /\ Cardinality(workers) = 1
            => \A k \in DOMAIN processed_events :
                  now - processed_events[k] < TTL
                  => /\ k \in DOMAIN processed_events'
                     /\ processed_events'[k] >= processed_events[k]]_vars

\* a redelivery skipped 300 seconds after the delivery was recorded
C5_Witness ==
    \E i \in Inv :
        /\ pc[i] = "done"
        /\ decision[i] = "SkipDuplicateDelivery"
        /\ KeyOf(i) \in DOMAIN processed_events
        /\ now - processed_events[KeyOf(i)] = 300

\* C6: suppression expires.  A request with a delivery id samples the time
\* when it comes to the delivery-identity gate; when the entry it reads for
\* its (id, bucket, name) is 600 seconds old or older at that time, it
\* passes the gate (Proceed), and the store that follows replaces the
\* recorded timestamp by the sampled time; with one worker the read of the
\* entry does not fail, the sweep then ends without an error and the
\* request goes on to the download.
C6_SuppressionExpires ==
    [][\A i \in Inv :
          /\ (pc[i] = "dedup" /\ pc'[i] # "dedup" /\ Truthy(event_id[i]))
             => current_time'[i] = now
          /\ (/\ pc[i] = "compare"
              /\ pc'[i] # "compare"
              /\ KeyOf(i) \in DOMAIN processed_events
              /\ current_time[i] - processed_events[KeyOf(i)] >= TTL)
             => /\ pc'[i] = "store"
                /\ decision'[i] = "Proceed"
                /\ current_time'[i] = current_time[i]
          /\ (pc[i] = "store" /\ pc'[i] # "store")
             => /\ KeyOf(i) \in DOMAIN processed_events'
                /\ processed_events'[KeyOf(i)] = current_time[i]
          /\ (workers = {i} /\ pc[i] = "compare" /\ pc'[i] # "compare")
             => error'[i] = "none"
          /\ (/\ workers = {i}
              /\ pc[i] \in {"store", "sweep", "collect", "evict"}
              /\ pc'[i] # pc[i])
             => pc'[i] \in {"sweep", "collect", "evict", "download"}]_vars

\* a request has passed the gate with an entry exactly 600 seconds old and is
\* about to replace it
C6_Witness ==
    \E i \in Inv :
        /\ pc[i] = "store"
        /\ KeyOf(i) \in DOMAIN processed_events
        /\ current_time[i] - processed_events[KeyOf(i)] = TTL

\* the objects of the output bucket that hold the result for source name n
OutputsFor(n) ==
    {b \in DOMAIN blobs :
        /\ b[1] = s_out
        /\ "document_info" \in DOMAIN blobs[b]
        /\ blobs[b].document_info.filename = n}

\* two requests for the same source, with different delivery ids or none,
\* have both passed the gates, called the extraction and uploaded
BothProcessed(i, j) ==
    /\ i # j
    /\ event[i] = event[j]
    /\ (event_id[i] # event_id[j] \/ ~Truthy(event_id[i]))
    /\ CallOK(calls[i], "process_document")
    /\ CallOK(calls[j], "process_document")
    /\ CallOK(calls[i], "upload")
    /\ CallOK(calls[j], "upload")

\* C7: the check-then-write race.  When two requests for the same source
\* (different delivery ids or none) have both passed the existence gate,
\* both called the extraction and both uploaded, the output bucket holds
\* exactly one output object for that source, at the output key of the
\* source.
C7_RaceOneOutput ==
    \A i, j \in Inv :
        BothProcessed(i, j) => OutputsFor(event[i].name) = {OutputOf(i)}

\* both requests of such a race have uploaded
C7_Witness == \E i, j \in Inv : BothProcessed(i, j)

\* C8: no failure crosses the HTTP boundary: every request is answered 204.
C8_Always204 == \A i \in Inv : pc[i] = "done" => status[i] = 204

\* C9: a notification whose name carries the processed marker or the
\* extension the output is written with (.json), and which comes as far as
\* the name gate, ends there (SkipAlreadyProcessedName) whatever its content
\* type is, without any call.
C9_NameGate ==
    \A i \in Inv :
        (/\ pc[i] # "idle"
         /\ ConfigKeys \subseteq DOMAIN environ
         /\ event[i].bucket # s_out
         /\ \/ endswith(event[i].name, s_json)
            \/ contains(event[i].name, s_verarbeitet))
        => /\ pc[i] = "done"
           /\ decision[i] = "SkipAlreadyProcessedName"
           /\ calls[i] = <<>>

\* the verdict of a request is that of the first gate that matches: the
\* gates before it do not match, and the calls made are those up to it
FirstMatchWins(i) ==
    LET configured == ConfigKeys \subseteq DOMAIN environ
        selfloop == event[i].bucket = s_out
        named == \/ endswith(event[i].name, s_txt)
                 \/ contains(event[i].name, s_verarbeitet)
        wrongtype == event[i].contentType # Some("application/pdf")
        local == {"SkipConfigError", "SkipSelfLoop",
                  "SkipAlreadyProcessedName", "SkipWrongType"}
    IN  pc[i] # "idle" =>
        /\ ~configured => decision[i] = "SkipConfigError"
        /\ (configured /\ selfloop) => decision[i] = "SkipSelfLoop"
        /\ (configured /\ ~selfloop /\ named)
              => decision[i] = "SkipAlreadyProcessedName"
        /\ (configured /\ ~selfloop /\ ~named /\ wrongtype)
              => decision[i] = "SkipWrongType"
        /\ decision[i] \in local
              => (pc[i] = "done" /\ calls[i] = <<>> /\ status[i] = 204)
        /\ decision[i] = "SkipAlreadyOutput"
              => (pc[i] = "done" /\ calls[i] = << <<"exists", TRUE>> >>)
        /\ decision[i] \in {"SkipDuplicateDelivery", "Proceed"}
              => (calls[i] # <<>> /\ calls[i][1] = <<"exists", TRUE>>)

\* C10: the gates are evaluated in the order configuration, self-loop, name
\* pattern, content type, existence check, delivery identity, and the first
\* that matches ends the request: a request ended by one of the first four
\* has made no call to the blob store, a request ended by one of the first
\* five leaves the cache as it is, and a request whose output exists ends
\* at the existence gate even when the cache holds a fresh entry for it.
C10_GateOrder ==
    [][\A i \in Inv :
          /\ FirstMatchWins(i)'
          /\ (/\ pc'[i] = "done"
              /\ pc[i] # "done"
              /\ decision'[i] \in {"SkipConfigError", "SkipSelfLoop",
                                   "SkipAlreadyProcessedName", "SkipWrongType",
                                   "SkipAlreadyOutput"})
             => processed_events' = processed_events
          /\ (/\ pc[i] = "exists"
              /\ calls'[i] = << <<"exists", TRUE>> >>
              /\ <<s_out, check_output_filename(event[i].name)>> \in DOMAIN blobs)
             => decision'[i] = "SkipAlreadyOutput"]_vars

\* a request ended at the existence gate while the cache holds a fresh entry
\* for its delivery: the fifth and the sixth gate both match
C10_Witness ==
    \E i \in Inv :
        /\ decision[i] = "SkipAlreadyOutput"
        /\ Truthy(event_id[i])
        /\ Suppressed(processed_events, KeyOf(i), now)

\* C11: a notification whose content type is not application/pdf (a missing
\* content type included) ends when it arrives, whatever its name, bucket
\* and delivery id are: no call is made (no extraction call in particular),
\* the blob store and the cache stay as they are, and the answer is 204.
C11_WrongTypeNoWork ==
    [][\A i \in Inv :
          (/\ pc[i] = "idle"
           /\ pc'[i] # "idle"
           /\ event'[i].contentType # Some("application/pdf"))
          => /\ pc'[i] = "done"
             /\ status'[i] = 204
             /\ calls'[i] = <<>>
             /\ blobs' = blobs
             /\ processed_events' = processed_events]_vars

\* a request for a.pdf in the source bucket, with a delivery id and without
\* content type, has ended at the content-type gate
C11_Witness ==
    \E i \in Inv :
        /\ pc[i] = "done"
        /\ decision[i] = "SkipWrongType"
        /\ event[i] = [bucket |-> s_in, name |-> n_a_pdf, contentType |-> None]
        /\ Truthy(event_id[i])
        /\ calls[i] = <<>>

\* C12: a notification from the configured output bucket ends when it
\* arrives (SkipSelfLoop), whatever its name and content type are: no
\* existence query, no download, no extraction, no upload and no delete is
\* made, and the cache and the blob store stay as they are.
C12_SelfLoopNoWork ==
    [][\A i \in Inv :
          (/\ pc[i] = "idle"
           /\ pc'[i] # "idle"
           /\ "OUTPUT_BUCKET" \in DOMAIN environ
           /\ event'[i].bucket = environ.OUTPUT_BUCKET)
          => /\ pc'[i] = "done"
             /\ decision'[i] = "SkipSelfLoop"
             /\ status'[i] = 204
             /\ calls'[i] = <<>>
             /\ blobs' = blobs
             /\ processed_events' = processed_events]_vars

\* a request for a.pdf of type application/pdf, with a delivery id, from the
\* output bucket has ended at the self-loop gate
C12_Witness ==
    \E i \in Inv :
        /\ pc[i] = "done"
        /\ decision[i] = "SkipSelfLoop"
        /\ event[i] = [bucket |-> s_out, name |-> n_a_pdf,
                       contentType |-> Some("application/pdf")]
        /\ Truthy(event_id[i])
        /\ calls[i] = <<>>

\* entities[type] of an output record: the list stored for an entity type
entities_get(record, type) ==
    LET at == {k \in 1..Len(record.entities) : record.entities[k].type = type}
    IN  IF at = {} THEN <<>> ELSE record.entities[CHOOSE k \in at : TRUE].values

\* the output record of the invoice scenario, with the keys line 202-206
\* write: value, confidence, normalized_value
InvoiceRecord(record) ==
    /\ entities_get(record, "total_amount") =
          << [value |-> "42.00", confidence |-> 91, normalized_value |-> None] >>
    /\ record.raw_text = "Total: 42.00"

\* the output object of the invoice scenario
InvoiceOutput(store) ==
    /\ <<s_out, n_invoice123_json>> \in DOMAIN store
    /\ InvoiceRecord(store[<<s_out, n_invoice123_json>>])

\* the output record of the invoice scenario with the third key spelled
\* normalizedValue
InvoiceRecordCamelCase(record) ==
    /\ entities_get(record, "total_amount") =
          << [value |-> "42.00", confidence |-> 91, normalizedValue |-> None] >>
    /\ record.raw_text = "Total: 42.00"

\* C13 as stated: when the invoice scenario has run to its end (extraction
\* returned the text "Total: 42.00" with the one entity, every call
\* succeeded), the object invoice123.json has entities.total_amount equal
\* to [{value "42.00", confidence 0.91, normalizedValue null}] and raw_text
\* "Total: 42.00", and the source is gone.
C13_InvoiceScenarioAsStated ==
    \A i \in Inv :
        (/\ pc[i] = "done"
         /\ event[i].name = n_invoice123_pdf
         /\ calls[i] = << <<"exists", TRUE>>, <<"download", TRUE>>,
                          <<"process_document", TRUE>>, <<"upload", TRUE>>,
                          <<"delete", TRUE>> >>
         /\ <<s_out, n_invoice123_json>> \in DOMAIN blobs
         /\ blobs[<<s_out, n_invoice123_json>>].raw_text = "Total: 42.00")
        => /\ InvoiceRecordCamelCase(blobs[<<s_out, n_invoice123_json>>])
           /\ <<s_in, n_invoice123_pdf>> \notin DOMAIN blobs

\* C13, amended (the third key of the element is normalized_value): the
\* invoice scenario.  For the source invoice123.pdf of type
\* application/pdf, when the extraction has returned the text
\* "Total: 42.00" with the one entity (total_amount, "42.00", 0.91), the
\* record built from it has entities.total_amount equal to the one-element
\* list [{value "42.00", confidence 0.91, normalized_value null}], raw_text
\* "Total: 42.00" and the clock of that moment as processing time; when the
\* upload succeeds, the object written is that record, at invoice123.json
\* in the output bucket; the delete that follows removes the source,
\* leaves that output as it is and the request ends with 204.
C13_InvoiceScenario ==
    [][\A i \in Inv :
          /\ (/\ pc[i] = "record"
              /\ pc'[i] # "record"
              /\ event[i].name = n_invoice123_pdf
              /\ document[i] = Some(doc_invoice))
             => /\ pc'[i] = "upload"
                /\ extracted_data'[i] # None
                /\ InvoiceRecord(extracted_data'[i][1])
                /\ extracted_data'[i][1].document_info.processing_time = now
                /\ blobs' = blobs
          /\ (/\ pc[i] = "upload"
              /\ event[i].name = n_invoice123_pdf
              /\ extracted_data[i][1].raw_text = "Total: 42.00"
              /\ CallOK(calls'[i], "upload"))
             => /\ InvoiceOutput(blobs')
                /\ blobs'[<<s_out, n_invoice123_json>>] = extracted_data[i][1]
                /\ DOMAIN blobs' = DOMAIN blobs \cup {<<s_out, n_invoice123_json>>}
                /\ pc'[i] = "delete"
          /\ (/\ pc[i] = "delete"
              /\ event[i].name = n_invoice123_pdf
              /\ InvoiceOutput(blobs)
              /\ CallOK(calls'[i], "delete"))
             => /\ <<s_in, n_invoice123_pdf>> \notin DOMAIN blobs'
                /\ InvoiceOutput(blobs')
                /\ pc'[i] = "done"
                /\ error'[i] = "none"
                /\ status'[i] = 204]_vars

\* the scenario has run to its end: every call succeeded, the output lies in
\* the output bucket and the source is gone
C13_Witness ==
    \E i \in Inv :
        /\ pc[i] = "done"
        /\ event[i].name = n_invoice123_pdf
        /\ calls[i] = << <<"exists", TRUE>>, <<"download", TRUE>>,
                         <<"process_document", TRUE>>, <<"upload", TRUE>>,
                         <<"delete", TRUE>> >>
        /\ InvoiceOutput(blobs)
        /\ <<s_in, n_invoice123_pdf>> \notin DOMAIN blobs

\* C14: the existence check queries the key the upload writes to: when a
\* request comes to the existence gate while the output bucket holds the
\* object an earlier run uploaded for the same source name, the check finds
\* it and the request ends there (SkipAlreadyOutput).
C14_CheckSeesWrittenKey ==
    [][\A i \in Inv :
          (/\ pc[i] = "exists"
           /\ CallOK(calls'[i], "exists")
           /\ HasOutput(i))
          => /\ check_output_filename(event[i].name) = output_filename(event[i].name)
             /\ pc'[i] = "done"
             /\ decision'[i] = "SkipAlreadyOutput"]_vars

\* the request of worker i has passed the cache lookup at current_time[i]
\* and has not yet finished its sweep
PassedLookup(i) == pc[i] \in {"store", "sweep", "collect", "evict"}

\* C15: of two concurrent requests with the same delivery id, bucket and
\* name, at most one passes the delivery-identity gate within the window:
\* a request does not pass the lookup less than 600 seconds after a
\* concurrent request with the same three values has passed it.
C15_OnePassesGate ==
    [][\A i, j \in Inv :
          (/\ i # j
           /\ pc[j] \in {"lookup", "compare"}
           /\ Truthy(event_id[j])
           /\ event_id[i] = event_id[j]
           /\ event[i].bucket = event[j].bucket
           /\ event[i].name = event[j].name
           /\ PassedLookup(i)
           /\ now - current_time[i] < TTL
           /\ pc'[j] \notin {"lookup", "compare"})
          => /\ pc'[j] = "done"
             /\ decision'[j] = "SkipDuplicateDelivery"]_vars

\* the three values the cache key of a request is built from
TripleOf(i) == <<event_id[i], event[i].bucket, event[i].name>>

\* C16: the cache key is injective on (delivery id, bucket, name): a request
\* is not skipped as a duplicate delivery on the entry that a concurrent
\* request with other values of the three has just recorded.
C16_KeyInjective ==
    [][\A i, j \in Inv :
          (/\ i # j
           /\ Truthy(event_id[i])
           /\ Truthy(event_id[j])
           /\ TripleOf(i) # TripleOf(j)
           /\ pc[i] \in {"sweep", "collect", "evict"}
           /\ KeyOf(i) \in DOMAIN processed_events
           /\ pc[j] = "compare"
           /\ pc'[j] # "compare")
          => /\ KeyOf(i) # KeyOf(j)
             /\ decision'[j] = "SkipDuplicateDelivery"
                   => processed_events[KeyOf(j)] # processed_events[KeyOf(i)]]_vars

\* the entry of key k differs between the two caches
EntryChanged(before, after, k) ==
    \/ (k \in DOMAIN before) # (k \in DOMAIN after)
    \/ k \in DOMAIN before /\ k \in DOMAIN after /\ before[k] # after[k]

\* C17: a request that ends at SkipDuplicateDelivery leaves the cache as it
\* is: it goes from the read of its entry straight to the end, without
\* store and without sweep.  An entry is written only by the store of a request that
\* has passed the gate (with the time that request sampled) and removed only
\* by such a request's sweep (with one worker: only when it is older than
\* 600 seconds), and a request with a delivery id is skipped exactly when
\* the entry it reads for its key is younger than 600 seconds at the time
\* it sampled: so redeliveries that are skipped do not prolong the
\* suppression.
C17_SkipLeavesCache ==
    [][/\ \A i \in Inv :
            (decision[i] # "SkipDuplicateDelivery"
               /\ decision'[i] = "SkipDuplicateDelivery")
            => /\ pc[i] = "compare"
               /\ pc'[i] = "done"
               /\ processed_events' = processed_events
               /\ dk_entries' = dk_entries
               /\ to_remove' = to_remove
       /\ \A i \in Inv :
            (pc[i] = "compare" /\ pc'[i] # "compare")
            => (decision'[i] = "SkipDuplicateDelivery"
                  <=> Suppressed(processed_events, KeyOf(i), current_time[i]))
       /\ \A k \in DOMAIN processed_events \cup DOMAIN processed_events' :
            EntryChanged(processed_events, processed_events', k)
            => \E i \in Inv :
                  /\ decision[i] = "Proceed"
                  /\ \/ /\ pc[i] = "store"
                        /\ k = KeyOf(i)
                        /\ k \in DOMAIN processed_events'
                        /\ processed_events'[k] = current_time[i]
                     \/ /\ pc[i] = "evict"
                        /\ k = Head(to_remove[i])
                        /\ k \notin DOMAIN processed_events'
                        /\ workers = {i}
                              => current_time[i] - processed_events[k] > TTL]_vars

\* a redelivery has been skipped: its entry still carries the time of the
\* request that passed, and an expired entry of another delivery is still
\* in the cache
C17_Witness ==
    \E i \in Inv :
        /\ pc[i] = "done"
        /\ decision[i] = "SkipDuplicateDelivery"
        /\ KeyOf(i) \in DOMAIN processed_events
        /\ processed_events[KeyOf(i)] < now
        /\ \E k \in DOMAIN processed_events : now - processed_events[k] > TTL

\* C18: the sweep never fails under concurrent requests: while a request
\* collects the expired keys the cache keeps its size, the key a request is
\* about to delete (line 109) is still in the cache, and no request ends
\* with the RuntimeError of line 107.
C18_SweepNeverFails ==
    \A i \in Inv :
        /\ pc[i] = "collect" => Cardinality(DOMAIN processed_events) = iter_size[i]
        /\ pc[i] = "evict" => Head(to_remove[i]) \in DOMAIN processed_events
        /\ error[i] # "RuntimeError"

\* the cache holds nothing older than the window at time t
NothingExpired(cache, t) == \A k \in DOMAIN cache : t - cache[k] <= TTL

\* C19: record and sweep.  With one worker, a request that passes the
\* delivery-identity gate at time t records its key with timestamp t (the
\* other entries stay as they are) and then sweeps: entry by entry it
\* collects the keys older than 600 seconds at t, each once, and when the
\* comprehension ends the list holds exactly those keys; when the sweep has
\* ended the cache
\* holds the request's own entry with timestamp t and no entry whose age at
\* t exceeds 600 seconds.
C19_RecordAndSweep ==
    [][\A i \in Inv :
          workers = {i} =>
          /\ (pc[i] = "dedup" /\ pc'[i] = "lookup") => current_time'[i] = now
          /\ (pc[i] \in {"lookup", "compare"} /\ pc'[i] = "store")
             => current_time'[i] = current_time[i]
          /\ (pc[i] = "store" /\ pc'[i] # "store")
             => /\ pc'[i] = "sweep"
                /\ processed_events' =
                      cache_put(processed_events, KeyOf(i), current_time[i])
          /\ (pc[i] = "collect" /\ pc'[i] = "collect" /\ di_pos'[i] = di_pos[i])
             => to_remove'[i] = to_remove[i]
          /\ (pc[i] = "collect" /\ pc'[i] = "collect" /\ di_pos'[i] # di_pos[i])
             => /\ di_pos'[i] > di_pos[i]
                /\ to_remove'[i] =
                      (IF current_time[i] - processed_events[dk_entries[di_pos'[i]]] > TTL
                       THEN Append(to_remove[i], dk_entries[di_pos'[i]])
                       ELSE to_remove[i])
          /\ (pc[i] = "collect" /\ pc'[i] # "collect")
             => /\ to_remove'[i] = to_remove[i]
                /\ {to_remove[i][n] : n \in 1..Len(to_remove[i])} =
                      {k \in DOMAIN processed_events :
                          current_time[i] - processed_events[k] > TTL}
                /\ Len(to_remove[i]) =
                      Cardinality({to_remove[i][n] : n \in 1..Len(to_remove[i])})
                /\ pc'[i] = (IF to_remove[i] = <<>> THEN "download" ELSE "evict")
          /\ (pc[i] \in {"collect", "evict"} /\ pc'[i] \notin {"collect", "evict"})
             => /\ pc'[i] = "download"
                /\ KeyOf(i) \in DOMAIN processed_events'
                /\ processed_events'[KeyOf(i)] = current_time[i]
                /\ NothingExpired(processed_events', current_time[i])]_vars

\* a request of the only worker has recorded its delivery and has collected
\* an expired entry of another delivery, which its sweep is about to delete
C19_Witness ==
    \E i \in Inv :
        /\ workers = {i}
        /\ pc[i] = "evict"
        /\ processed_events[KeyOf(i)] = current_time[i]
        /\ to_remove[i] # <<>>
        /\ ~NothingExpired(processed_events, current_time[i])

\* C20: a failed cleanup is not fatal.  When the delete of the source fails
\* after the upload succeeded, the request ends normally (answer 204, the
\* failure only logged), the blob store stays as it is, the uploaded output
\* is in the output bucket, and with one worker the source object is still
\* present.
C20_CleanupNonFatal ==
    [][\A i \in Inv :
          (pc[i] = "delete" /\ CallFailed(calls'[i], "delete"))
          => /\ CallOK(calls[i], "upload")
             /\ pc'[i] = "done"
             /\ status'[i] = 204
             /\ decision'[i] = "Proceed"
             /\ error'[i] = "CleanupWarning"
             /\ blobs' = blobs
             /\ HasOutput(i)'
             /\ workers = {i} => SourceOf(i) \in DOMAIN blobs']_vars

\* a request has ended after a failed delete: answered 204, its output
\* uploaded and its source still in the source bucket
C20_Witness ==
    \E i \in Inv :
        /\ pc[i] = "done"
        /\ status[i] = 204
        /\ CallOK(calls[i], "upload")
        /\ CallFailed(calls[i], "delete")
        /\ HasOutput(i)
        /\ SourceOf(i) \in DOMAIN blobs

====
